---- MODULE Spec2Model ----
(***************************************************************************)
(* Model of fba_replenisher: OutflowPredicter (outflow_predicter.py),      *)
(* ReplenishmentReport (replenishment_report.py) and AmazonDataLogger      *)
(* (amazon_data_logger.py).                                                *)
(*                                                                         *)
(* Dates are whole days counted from today (today = 0, yesterday = -1).    *)
(* A Python object is a record of its attributes; an attribute that has    *)
(* not been assigned yet is absent from the record's domain.               *)
(* A DataFrame is [index, columns, cell]: index and columns are the        *)
(* ordered labels, cell maps <<row, column>> to the value; a NaN cell is   *)
(* a pair that is absent from DOMAIN cell.                                 *)
(* Forecasts and running inventory levels are floats in the program; the   *)
(* model computes them as exact rationals [num, den] in lowest terms, so   *)
(* rounding error of float arithmetic is outside the model.                *)
(***************************************************************************)
EXTENDS Integers, Sequences, FiniteSets, TLC

VARIABLES
    csv_order_items,        \* rows of the order items csv file of the predicter
    predicter,              \* the OutflowPredicter object
    report,                 \* the ReplenishmentReport object
    last_call,              \* the last operation called and its argument
    raised,                 \* the exception the last operation raised
    logger,                 \* the AmazonDataLogger object
    fetch,                  \* the locals of a running request_..._from_spapi call
    spapi                   \* the SP API: the pages it serves and the requests it got

vars == <<csv_order_items, predicter, report, last_call, raised, logger, fetch, spapi>>

----------------------------------------------------------------------------
(* Bounds of the model *)

MaxItems == 2
MaxQty == 1
MaxDaysBack == 2
MaxDaysFuture == 2
MaxLevel == 1

(* today, as a day number *)
today == 0

(* The product ids, in lexicographic order *)
SkuOrder == <<"A", "B">>

Skus == {SkuOrder[i] : i \in 1..Len(SkuOrder)}

SkuRank(sku) == CHOOSE i \in 1..Len(SkuOrder) : SkuOrder[i] = sku

ItemDates == (today - (MaxDaysBack + 1)) .. today

DaysBackArgs == 1..MaxDaysBack

DaysInFutureArgs == 1..MaxDaysFuture

UntilDateArgs == (today - 1) .. (today + MaxDaysFuture)

----------------------------------------------------------------------------
(* Generic helpers *)

Range(s) == {s[i] : i \in 1..Len(s)}

NoObject == <<>>

HasAttr(self, name) == name \in DOMAIN self

SetAttr(self, name, value) == (name :> value) @@ self

NoError == [type |-> "none", msg |-> <<>>]

RECURSIVE GCD(_, _)
GCD(a, b) == IF b = 0 THEN a ELSE GCD(b, a % b)

Abs(n) == IF n < 0 THEN -n ELSE n

(* rationals in lowest terms with a positive denominator *)
Rat(n, d) ==
    LET g == GCD(Abs(n), d)
    IN  [num |-> n \div g, den |-> d \div g]

RatOfInt(n) == [num |-> n, den |-> 1]

RatSub(a, b) == Rat(a.num * b.den - b.num * a.den, a.den * b.den)

RatAdd(a, b) == Rat(a.num * b.den + b.num * a.den, a.den * b.den)

RatNeg(a) == [num |-> -a.num, den |-> a.den]

RatIsNegative(a) == a.num < 0

(* sorted(...) of a set of product ids *)
SortedSkus(S) ==
    SelectSeq(SkuOrder, LAMBDA s : s \in S)

(* the ascending sequence of a set of day numbers *)
RECURSIVE SortedDates(_)
SortedDates(S) ==
    IF S = {} THEN <<>>
    ELSE LET m == CHOOSE x \in S : \A y \in S : x <= y
         IN  <<m>> \o SortedDates(S \ {m})

----------------------------------------------------------------------------
(* pandas operations used by the program *)

(* pd.date_range(start, periods=periods, freq="D") *)
DateRange(start, periods) == [i \in 1..periods |-> start + (i - 1)]

EmptyFrame(index) == [index |-> index, columns |-> <<>>, cell |-> <<>>]

(* GroupSum with each row of the group overwriting the value so far *)
RECURSIVE GroupLast(_, _, _)
GroupLast(items, date, sku) ==
    IF items = <<>> THEN 0
    ELSE LET r == items[Len(items)]
         IN  IF r.index = date /\ r.SellerSKU = sku THEN r.QuantityOrdered
             ELSE GroupLast(SubSeq(items, 1, Len(items) - 1), date, sku)

(* the sum aggregation of one (date, product) group, in row order *)
RECURSIVE GroupSum(_, _, _)
GroupSum(items, date, sku) ==
    IF items = <<>> THEN 0
    ELSE LET r == Head(items)
         IN  (IF r.index = date /\ r.SellerSKU = sku THEN r.QuantityOrdered ELSE 0)
             + GroupSum(Tail(items), date, sku)

(* pd.pivot_table(items, values="QuantityOrdered", index=items.index,
   columns="SellerSKU", aggfunc=np.sum): a row per date that has an item, a
   column per product that has an item, NaN where the pair has none *)
PivotTable(items) ==
    LET groups == {<<items[i].index, items[i].SellerSKU>> : i \in 1..Len(items)}
    IN  [index   |-> SortedDates({g[1] : g \in groups}),
         columns |-> SortedSkus({g[2] : g \in groups}),
         cell    |-> [g \in groups |-> GroupSum(items, g[1], g[2])]]

(* DataFrame.reindex(index): the rows of index, NaN in the new ones *)
ReindexRows(df, index) ==
    [df EXCEPT !.index = index,
               !.cell = [p \in {q \in DOMAIN df.cell : q[1] \in Range(index)} |-> df.cell[p]]]

(* FillNa that leaves the NaN cells as they are *)
FillNaSkipped(df, value) == df

(* DataFrame.fillna(value) *)
FillNa(df, value) ==
    [df EXCEPT !.cell = [p \in Range(df.index) \X Range(df.columns) |->
                            IF p \in DOMAIN df.cell THEN df.cell[p] ELSE value]]

(* DataFrame.reindex(columns, axis=1) *)
ReindexColumns(df, columns) ==
    [df EXCEPT !.columns = columns,
               !.cell = [p \in {q \in DOMAIN df.cell : q[2] \in Range(columns)} |-> df.cell[p]]]

(* df[sku]: the column as a sequence in index order *)
Column(df, sku) == [i \in 1..Len(df.index) |-> df.cell[<<df.index[i], sku>>]]

----------------------------------------------------------------------------
(* OutflowPredicter *)

(* get_order_items: the rows of the csv file, indexed by purchase date *)
get_order_items(csv) ==
    [i \in 1..Len(csv) |->
        [index           |-> csv[i].PurchaseDate,
         SellerSKU       |-> csv[i].SellerSKU,
         QuantityOrdered |-> csv[i].QuantityOrdered]]

(* OutflowPredicter.__init__ *)
OutflowPredicter(csv) ==
    [order_items |-> get_order_items(csv), today |-> today]

(* the rows of order_items with start_date <= index < today *)
InWindow(order_items, start_date, end_date) ==
    SelectSeq(order_items, LAMBDA r : r.index >= start_date /\ r.index < end_date)

(* the pivot of the rows, reindexed to the window's dates, NaN filled with 0 *)
PastMatrix(order_items, start_date, days_back) ==
    LET pivot == FillNa(ReindexRows(PivotTable(order_items),
                                    DateRange(start_date, days_back)), 0)
    IN  ReindexColumns(pivot, SortedSkus(Range(pivot.columns)))

(* OutflowPredicter.prepare_past: the object after the call *)
prepare_past(self, days_back) ==
    LET start_date  == self.today - days_back
        order_items == InWindow(self.order_items, start_date, self.today)
    IN  SetAttr(SetAttr(SetAttr(SetAttr(self,
            "days_back", days_back),
            "start_date", start_date),
            "order_items", order_items),
            "past", PastMatrix(order_items, start_date, days_back))

RECURSIVE SeqSum(_)
SeqSum(s) == IF s = <<>> THEN 0 ELSE Head(s) + SeqSum(Tail(s))

(* NaiveForecasterMean with integer division *)
NaiveForecasterTruncatedMean(history) == RatOfInt(SeqSum(history) \div Len(history))

(* NaiveForecaster(strategy="mean"): the mean of the whole history *)
NaiveForecasterMean(history) == Rat(SeqSum(history), Len(history))

(* the loop of predict_future over past.columns, from column k on *)
RECURSIVE ForecastColumns(_, _, _)
ForecastColumns(future, past, k) ==
    IF k > Len(past.columns) THEN future
    ELSE LET sku  == past.columns[k]
             mean == NaiveForecasterMean(Column(past, sku))
             next == [future EXCEPT
                         !.columns = Append(@, sku),
                         !.cell = [p \in {<<d, sku>> : d \in Range(future.index)} |-> mean] @@ @]
         IN  ForecastColumns(next, past, k + 1)

(* OutflowPredicter.predict_future: the object after the call *)
predict_future(self, days_in_future) ==
    LET empty == EmptyFrame(DateRange(self.today, days_in_future))
    IN  SetAttr(SetAttr(self,
            "days_in_future", days_in_future),
            "future", ForecastColumns(empty, self.past, 1))

----------------------------------------------------------------------------
(* The csv files *)

OrderItemRows ==
    [PurchaseDate : ItemDates, SellerSKU : Skus, QuantityOrdered : 0..MaxQty]

ItemKey(r) ==
    ((r.PurchaseDate - today + MaxDaysBack + 1) * (Len(SkuOrder) + 1) + SkuRank(r.SellerSKU))
        * (MaxQty + 1) + r.QuantityOrdered

(* Aggregation does not depend on the order of the rows: each multiset of
   rows is represented by its rows in ascending key order *)
OrderItemFiles ==
    {f \in UNION {[1..n -> OrderItemRows] : n \in 0..MaxItems} :
        \A i \in 1..(Len(f) - 1) : ItemKey(f[i]) <= ItemKey(f[i + 1])}

InventoryRows == [sellerSku : Skus, totalQuantity : 0..MaxLevel]

(* The inventory file is written from one API listing, a row per product
   of a subset of the products, here in product order *)
InventoryFiles ==
    {f \in UNION {[1..n -> InventoryRows] : n \in 0..Len(SkuOrder)} :
        \A i \in 1..(Len(f) - 1) : SkuRank(f[i].sellerSku) < SkuRank(f[i + 1].sellerSku)}

----------------------------------------------------------------------------
(* Operations on an OutflowPredicter *)

Call(op, arg) == [op |-> op, arg |-> arg]

Init ==
    /\ csv_order_items \in OrderItemFiles
    /\ predicter = NoObject
    /\ report = NoObject
    /\ last_call = Call("none", 0)
    /\ raised = NoError
    /\ logger = NoObject
    /\ fetch = NoObject
    /\ spapi = NoObject

NewPredicter ==
    /\ DOMAIN predicter = {}
    /\ predicter' = OutflowPredicter(csv_order_items)
    /\ last_call' = Call("OutflowPredicter", 0)
    /\ raised' = NoError
    /\ UNCHANGED <<csv_order_items, report, logger, fetch, spapi>>

PreparePast(days_back) ==
    /\ DOMAIN predicter # {}
    /\ predicter' = prepare_past(predicter, days_back)
    /\ last_call' = Call("prepare_past", days_back)
    /\ raised' = NoError
    /\ UNCHANGED <<csv_order_items, report, logger, fetch, spapi>>

(* forecaster.predict(fh=ForecastingHorizon(self.future.index, ...)) when
   the index is empty: sktime either rejects the empty horizon with a
   ValueError or returns no prediction, depending on its version *)
EmptyHorizonOutcomes == {"ValueError", "no prediction"}

(* self.past is read before it exists: AttributeError, after the first two
   assignments of predict_future. days_in_future is not validated:
   pd.date_range(self.today, periods=0) is an empty index, and the loop
   calls the forecaster once per column of past with it *)
PredictFuture(days_in_future) ==
    /\ DOMAIN predicter # {}
    /\ IF ~HasAttr(predicter, "past")
       THEN /\ predicter' = SetAttr(SetAttr(predicter,
                                "days_in_future", days_in_future),
                                "future", EmptyFrame(DateRange(predicter.today, days_in_future)))
            /\ raised' = [type |-> "AttributeError",
                          msg |-> <<"'OutflowPredicter' object has no attribute", "past">>]
       ELSE \E outcome \in IF days_in_future > 0 \/ predicter.past.columns = <<>>
                            THEN {"no prediction"} ELSE EmptyHorizonOutcomes :
                IF days_in_future > 0 \/ outcome = "no prediction"
                THEN /\ predicter' = predict_future(predicter, days_in_future)
                     /\ raised' = NoError
                ELSE /\ predicter' = SetAttr(SetAttr(predicter,
                                         "days_in_future", days_in_future),
                                         "future", EmptyFrame(DateRange(predicter.today, days_in_future)))
                     /\ raised' = [type |-> "ValueError",
                                   msg |-> <<"fh must not be empty">>]
    /\ last_call' = Call("predict_future", days_in_future)
    /\ UNCHANGED <<csv_order_items, report, logger, fetch, spapi>>

NextPredicter ==
    \/ NewPredicter
    \/ \E days_back \in DaysBackArgs : PreparePast(days_back)
    \/ \E days_in_future \in DaysInFutureArgs : PredictFuture(days_in_future)
    \/ PredictFuture(0)
    \/ PreparePast(0)

SpecPredicter == Init /\ [][NextPredicter]_vars

----------------------------------------------------------------------------
(* ReplenishmentReport *)

(* pd.Series(dtype="float64"): index is the labels in insertion order *)
EmptySeries == [index |-> <<>>, value |-> <<>>]

(* series[label] = value *)
SeriesSet(series, label, value) ==
    [index |-> IF label \in Range(series.index) THEN series.index
               ELSE Append(series.index, label),
     value |-> (label :> value) @@ series.value]

(* inventory_levels[inventory_levels["sellerSku"] == sku]["totalQuantity"] *)
TotalQuantityOf(inventory_levels, sku) ==
    LET rows == SelectSeq(inventory_levels, LAMBDA r : r.sellerSku = sku)
    IN  [i \in 1..Len(rows) |-> rows[i].totalQuantity]

CannotConvert ==
    [type |-> "TypeError", msg |-> <<"cannot convert the series to", "<class 'int'>">>]

(* int(series): the value of a one-element series, TypeError otherwise *)
IntOfSeries(series) ==
    IF Len(series) = 1
    THEN [value |-> series[1], raised |-> NoError]
    ELSE [value |-> 0, raised |-> CannotConvert]

(* WalkToOutOfStock with a level of 0 counted as out of stock *)
RECURSIVE WalkToOutOfStockAtZero(_, _, _, _, _)
WalkToOutOfStockAtZero(series, future, sku, level, i) ==
    IF i > Len(future.index) THEN series
    ELSE LET date == future.index[i]
             inventory_level == RatSub(level, future.cell[<<date, sku>>])
         IN  IF inventory_level.num <= 0
             THEN SeriesSet(series, sku, date)
             ELSE WalkToOutOfStockAtZero(series, future, sku, inventory_level, i + 1)

(* the inner loop of _predict_out_of_stock_dates from row i on: the series
   with the first date at which the level is below 0, if there is one *)
RECURSIVE WalkToOutOfStock(_, _, _, _, _)
WalkToOutOfStock(series, future, sku, level, i) ==
    IF i > Len(future.index) THEN series
    ELSE LET date == future.index[i]
             inventory_level == RatSub(level, future.cell[<<date, sku>>])
         IN  IF RatIsNegative(inventory_level)
             THEN SeriesSet(series, sku, date)
             ELSE WalkToOutOfStock(series, future, sku, inventory_level, i + 1)

(* the outer loop of _predict_out_of_stock_dates from column k on *)
RECURSIVE OutOfStockLoop(_, _, _)
OutOfStockLoop(series, self, k) ==
    IF k > Len(self.future.columns) THEN [series |-> series, raised |-> NoError]
    ELSE LET sku == self.future.columns[k]
             inv == IntOfSeries(TotalQuantityOf(self.inventory_levels, sku))
         IN  IF inv.raised # NoError
             THEN [series |-> series, raised |-> inv.raised]
             ELSE OutOfStockLoop(
                      WalkToOutOfStock(series, self.future, sku, RatOfInt(inv.value), 1),
                      self, k + 1)

(* days_left, in whole days from the start of today *)
DaysLeft(series, now) ==
    [index |-> series.index,
     value |-> [l \in DOMAIN series.value |-> series.value[l] - now]]

(* ReplenishmentReport._predict_out_of_stock_dates: the object after the
   call and the exception raised; days_left is not assigned when the loop
   raises *)
predict_out_of_stock_dates(self) ==
    LET res  == OutOfStockLoop(EmptySeries, self, 1)
        self1 == SetAttr(self, "out_of_stock_dates", res.series)
    IN  IF res.raised # NoError
        THEN [self |-> self1, raised |-> res.raised]
        ELSE [self |-> SetAttr(self1, "days_left", DaysLeft(res.series, today)),
              raised |-> NoError]

(* WalkToDate that stops at the first date after replenish_until_date *)
RECURSIVE WalkToDatePastUntil(_, _, _, _, _, _)
WalkToDatePastUntil(series, future, sku, level, until_date, i) ==
    IF i > Len(future.index) THEN series
    ELSE LET date == future.index[i]
             inventory_level == RatSub(level, future.cell[<<date, sku>>])
         IN  IF date > until_date
             THEN SeriesSet(series, sku, RatNeg(inventory_level))
             ELSE WalkToDatePastUntil(series, future, sku, inventory_level, until_date, i + 1)

(* the inner loop of propose_replenishment_quantities from row i on: the
   series with -level at the first date >= replenish_until_date, if any *)
RECURSIVE WalkToDate(_, _, _, _, _, _)
WalkToDate(series, future, sku, level, until_date, i) ==
    IF i > Len(future.index) THEN series
    ELSE LET date == future.index[i]
             inventory_level == RatSub(level, future.cell[<<date, sku>>])
         IN  IF date >= until_date
             THEN SeriesSet(series, sku, RatNeg(inventory_level))
             ELSE WalkToDate(series, future, sku, inventory_level, until_date, i + 1)

(* the outer loop of propose_replenishment_quantities from column k on *)
RECURSIVE ReplenishmentLoop(_, _, _, _)
ReplenishmentLoop(series, self, until_date, k) ==
    IF k > Len(self.future.columns) THEN [series |-> series, raised |-> NoError]
    ELSE LET sku == self.future.columns[k]
             inv == IntOfSeries(TotalQuantityOf(self.inventory_levels, sku))
         IN  IF inv.raised # NoError
             THEN [series |-> series, raised |-> inv.raised]
             ELSE ReplenishmentLoop(
                      WalkToDate(series, self.future, sku, RatOfInt(inv.value),
                                 until_date, 1),
                      self, until_date, k + 1)

(* propose_replenishment_quantities that adds to the series of the call
   before instead of starting an empty one *)
propose_keeping_entries(self, replenish_until_date) ==
    LET start == IF HasAttr(self, "replenischment_quantities")
                 THEN self.replenischment_quantities ELSE EmptySeries
        res   == ReplenishmentLoop(start, self, replenish_until_date, 1)
    IN  [self   |-> SetAttr(self, "replenischment_quantities", res.series),
         raised |-> res.raised]

(* ReplenishmentReport.propose_replenishment_quantities: the object after
   the call and the exception raised *)
propose_replenishment_quantities(self, replenish_until_date) ==
    LET res == ReplenishmentLoop(EmptySeries, self, replenish_until_date, 1)
    IN  [self   |-> SetAttr(self, "replenischment_quantities", res.series),
         raised |-> res.raised]

(* ReplenishmentReport.__init__, given the predicter it has built and
   prepared: the object and the exception raised *)
ReplenishmentReport(outflow_predicter, csv_levels) ==
    predict_out_of_stock_dates(
        [past             |-> outflow_predicter.past,
         future           |-> outflow_predicter.future,
         inventory_levels |-> csv_levels])

----------------------------------------------------------------------------
(* Operations on a ReplenishmentReport *)

InitReport ==
    /\ csv_order_items = <<>>
    /\ predicter = NoObject
    /\ report = NoObject
    /\ last_call = Call("none", 0)
    /\ raised = NoError
    /\ logger = NoObject
    /\ fetch = NoObject
    /\ spapi = NoObject

(* The predicters a constructor can build: one for each order items file,
   days_back and days_in_future it can be given *)
PreparedPredicters ==
    {predict_future(prepare_past(OutflowPredicter(csv_items), days_back), days_in_future) :
        csv_items \in OrderItemFiles, days_back \in DaysBackArgs,
        days_in_future \in DaysInFutureArgs}

(* The constructor, called once, which reads the two csv files it is given;
   when it raises, no object is bound.  Its predicter is read by no later
   operation and is not kept in the state. *)
NewReport ==
    /\ last_call.op = "none"
    /\ \E outflow_predicter \in PreparedPredicters, csv_levels \in InventoryFiles :
           LET res == ReplenishmentReport(outflow_predicter, csv_levels)
           IN  /\ raised' = res.raised
               /\ IF res.raised = NoError
                  THEN report' = res.self
                  ELSE UNCHANGED report
               /\ last_call' = Call("ReplenishmentReport", outflow_predicter.days_in_future)
    /\ UNCHANGED <<csv_order_items, predicter, logger, fetch, spapi>>

PredictOutOfStockDates ==
    /\ DOMAIN report # {}
    /\ LET res == predict_out_of_stock_dates(report)
       IN  /\ report' = res.self
           /\ raised' = res.raised
    /\ last_call' = Call("_predict_out_of_stock_dates", 0)
    /\ UNCHANGED <<csv_order_items, predicter, logger, fetch, spapi>>

ProposeReplenishmentQuantities(replenish_until_date) ==
    /\ DOMAIN report # {}
    /\ LET res == propose_replenishment_quantities(report, replenish_until_date)
       IN  /\ report' = res.self
           /\ raised' = res.raised
    /\ last_call' = Call("propose_replenishment_quantities", replenish_until_date)
    /\ UNCHANGED <<csv_order_items, predicter, logger, fetch, spapi>>

NextReport ==
    \/ NewReport
    \/ PredictOutOfStockDates
    \/ \E replenish_until_date \in UntilDateArgs :
            ProposeReplenishmentQuantities(replenish_until_date)

SpecReport == InitReport /\ [][NextReport]_vars

----------------------------------------------------------------------------
(* Definitions the properties are stated with *)

SimulatorOps == {"ReplenishmentReport", "_predict_out_of_stock_dates",
                 "propose_replenishment_quantities"}

Constructed == DOMAIN report # {}

MinOf(S) == CHOOSE x \in S : \A y \in S : x <= y

RECURSIVE RatSumOver(_, _, _)
RatSumOver(future, sku, dates) ==
    IF dates = {} THEN RatOfInt(0)
    ELSE LET d == CHOOSE x \in dates : TRUE
         IN  RatAdd(future.cell[<<d, sku>>], RatSumOver(future, sku, dates \ {d}))

(* the level of a product that starts at start, after the forecasts of all
   dates up to and including date are subtracted *)
LevelAfter(future, start, sku, date) ==
    RatSub(start, RatSumOver(future, sku, {d \in Range(future.index) : d <= date}))

(* the product's quantity in the inventory levels *)
InventoryOf(inventory_levels, sku) ==
    RatOfInt((CHOOSE r \in Range(inventory_levels) : r.sellerSku = sku).totalQuantity)

(* the dates at which the product's simulated level is below 0 *)
NegativeDates(self, sku) ==
    {d \in Range(self.future.index) :
        RatIsNegative(LevelAfter(self.future, InventoryOf(self.inventory_levels, sku), sku, d))}

(* the forecast dates at or after until_date *)
DatesFrom(self, until_date) == {d \in Range(self.future.index) : d >= until_date}

LastDate(self) == self.future.index[Len(self.future.index)]

RECURSIVE SumQuantities(_, _)
SumQuantities(items, I) ==
    IF I = {} THEN 0
    ELSE LET i == CHOOSE x \in I : TRUE
         IN  items[i].QuantityOrdered + SumQuantities(items, I \ {i})

RECURSIVE SumCells(_, _)
SumCells(cell, P) ==
    IF P = {} THEN 0
    ELSE LET q == CHOOSE x \in P : TRUE
         IN  cell[q] + SumCells(cell, P \ {q})

----------------------------------------------------------------------------
(* C1: in every report, each product column of the future matrix has an
   out-of-stock date exactly when its level, started at the inventory level
   and reduced by the forecasts in date order, is below 0 at some date; the
   date recorded is the first such date (a level of 0 is in stock). *)
C1_OutOfStockIsFirstNegativeDate ==
    Constructed =>
        /\ Range(report.out_of_stock_dates.index) \subseteq Range(report.future.columns)
        /\ \A sku \in Range(report.future.columns) :
               LET neg == NegativeDates(report, sku)
               IN  IF neg = {}
                   THEN sku \notin Range(report.out_of_stock_dates.index)
                   ELSE /\ sku \in Range(report.out_of_stock_dates.index)
                        /\ report.out_of_stock_dates.value[sku] = MinOf(neg)

(* a product whose level is exactly 0 on one date and below 0 on the next,
   where it is recorded, next to a product that never goes below 0 *)
C1_Witness ==
    /\ Constructed
    /\ \E sku \in Range(report.out_of_stock_dates.index) :
           /\ report.out_of_stock_dates.value[sku] > today
           /\ LevelAfter(report.future, InventoryOf(report.inventory_levels, sku), sku,
                         report.out_of_stock_dates.value[sku] - 1) = RatOfInt(0)
    /\ \E sku \in Range(report.future.columns) :
           sku \notin Range(report.out_of_stock_dates.index)

(* C2: after propose_replenishment_quantities, a product has an entry only
   if its level at the first forecast date >= until_date is negative, the
   entry is -level, and a product whose level there is >= 0 has no entry. *)
C2_RecordsOnlyShortfalls ==
    (Constructed /\ last_call.op = "propose_replenishment_quantities") =>
        \A sku \in Range(report.future.columns) :
            LET dates == DatesFrom(report, last_call.arg)
                level == LevelAfter(report.future,
                                    InventoryOf(report.inventory_levels, sku), sku,
                                    MinOf(dates))
                quantities == report.replenischment_quantities
            IN  dates # {} =>
                    IF RatIsNegative(level)
                    THEN /\ sku \in Range(quantities.index)
                         /\ quantities.value[sku] = RatNeg(level)
                    ELSE sku \notin Range(quantities.index)

(* C3: a call of propose_replenishment_quantities with until_date later than
   the last date of the future matrix raises DateOutOfHorizonError. *)
C3_OutOfHorizonRaises ==
    (Constructed /\ last_call.op = "propose_replenishment_quantities"
        /\ last_call.arg > LastDate(report)) =>
        raised.type = "DateOutOfHorizonError"

(* C4: when a simulator operation fails because a product of the future
   matrix has no row in the inventory levels, the error names the product. *)
C4_MissingInventoryErrorNamesProduct ==
    (last_call.op \in SimulatorOps /\ raised # NoError) =>
        \E sku \in Skus : sku \in Range(raised.msg)

(* C5: after propose_replenishment_quantities with until_date inside the
   horizon and forecasts >= 0, the quantity q recorded for a product keeps
   the level started at inventory + q at or above 0 on every forecast date
   up to until_date, the level is exactly 0 on one of them, and from every
   smaller addition q - 1/k the level is below 0 on one of them. *)
C5_QuantityIsMinimalAddition ==
    (/\ Constructed
     /\ last_call.op = "propose_replenishment_quantities"
     /\ last_call.arg \in Range(report.future.index)
     /\ \A p \in DOMAIN report.future.cell : ~RatIsNegative(report.future.cell[p])) =>
        \A sku \in Range(report.replenischment_quantities.index) :
            LET q      == report.replenischment_quantities.value[sku]
                dates  == {d \in Range(report.future.index) : d <= last_call.arg}
                inv    == InventoryOf(report.inventory_levels, sku)
                Lev(add, d) == LevelAfter(report.future, RatAdd(inv, add), sku, d)
            IN  /\ \A d \in dates : ~RatIsNegative(Lev(q, d))
                /\ \E d \in dates : Lev(q, d) = RatOfInt(0)
                /\ \A k \in 1..(MaxDaysBack + 1) :
                       \E d \in dates : RatIsNegative(Lev(RatSub(q, Rat(1, k)), d))

(* a positive quantity recorded for a date after the first one, from a
   forecast that is not a whole number *)
C5_Witness ==
    /\ Constructed
    /\ last_call.op = "propose_replenishment_quantities"
    /\ last_call.arg \in Range(report.future.index)
    /\ last_call.arg > today
    /\ \E sku \in Range(report.replenischment_quantities.index) :
           /\ report.replenischment_quantities.value[sku].num > 0
           /\ report.future.cell[<<today, sku>>].den > 1

----------------------------------------------------------------------------
(* the dates of [today - days_back, today) *)
Window(days_back) == (today - days_back) .. (today - 1)

(* the rows of items with the given purchase date and product *)
RowsOf(items, date, sku) ==
    {i \in 1..Len(items) : items[i].index = date /\ items[i].SellerSKU = sku}

(* a step of prepare_past(days_back) on the order items the object holds
   when it is called: every (date, product) of the window and the columns
   has a cell, every cell is the sum of the quantities of the rows with that
   date and product, every row inside the window has its product among the
   columns, and a column's total is the total quantity of the product's rows
   inside the window (rows outside it add to no cell) *)
C6_Step ==
    last_call'.op = "prepare_past" =>
        LET items  == predicter.order_items
            window == Window(last_call'.arg)
            past   == predicter'.past
        IN  /\ \A date \in window, sku \in Range(past.columns) :
                   <<date, sku>> \in DOMAIN past.cell
            /\ \A q \in DOMAIN past.cell :
                   past.cell[q] = SumQuantities(items, RowsOf(items, q[1], q[2]))
            /\ \A i \in 1..Len(items) :
                   items[i].index \in window => items[i].SellerSKU \in Range(past.columns)
            /\ \A sku \in Range(past.columns) :
                   SumCells(past.cell, {q \in DOMAIN past.cell : q[2] = sku})
                       = SumQuantities(items,
                             {i \in 1..Len(items) :
                                 items[i].SellerSKU = sku /\ items[i].index \in window})

(* C6: after prepare_past(days_back), each cell of the past matrix is the
   sum of QuantityOrdered over the order items of that date and product
   (rows of the same date and product are added), items dated outside
   [today - days_back, today) add to no cell, and each column's total is
   the total quantity of the product's items inside the window. *)
C6_PastCellsAreSums == [][C6_Step]_vars

(* prepare_past has added two rows of one date and product into a cell *)
C6_Witness ==
    /\ last_call.op = "prepare_past"
    /\ \E i, j \in 1..Len(predicter.order_items) :
           LET a == predicter.order_items[i]
               b == predicter.order_items[j]
           IN  /\ i < j
               /\ a.index = b.index /\ a.SellerSKU = b.SellerSKU
               /\ a.QuantityOrdered > 0 /\ b.QuantityOrdered > 0
               /\ predicter.past.cell[<<a.index, a.SellerSKU>>]
                      = a.QuantityOrdered + b.QuantityOrdered

(* a step of prepare_past(days_back): the rows of the past matrix are the
   days_back consecutive dates from today - days_back on, there is one
   column per product that has a row inside the window among the order
   items held at the call, and every cell holds a number >= 0 *)
C7_Step ==
    last_call'.op = "prepare_past" =>
        LET items     == predicter.order_items
            days_back == last_call'.arg
            past      == predicter'.past
        IN  /\ Len(past.index) = days_back
            /\ \A i \in 1..days_back : past.index[i] = today - days_back + (i - 1)
            /\ \A i, j \in 1..Len(past.columns) : past.columns[i] = past.columns[j] => i = j
            /\ Range(past.columns) =
                   {items[i].SellerSKU : i \in {k \in 1..Len(items) :
                                                   items[k].index \in Window(days_back)}}
            /\ DOMAIN past.cell = Range(past.index) \X Range(past.columns)
            /\ \A q \in DOMAIN past.cell : past.cell[q] \in Nat

(* C7: for any order items, the past matrix built by prepare_past(days_back)
   has exactly days_back rows, one per consecutive date of
   [today - days_back, today), one column per distinct product seen in the
   window, and a value >= 0 in every cell. *)
C7_PastMatrixIsDense == [][C7_Step]_vars

(* a past matrix of two columns with a cell that no row filled, and a past
   matrix built when no row is inside the window *)
C7_Witness ==
    /\ last_call.op = "prepare_past"
    /\ \/ /\ Len(predicter.past.columns) = 2
          /\ \E q \in DOMAIN predicter.past.cell :
                 RowsOf(predicter.order_items, q[1], q[2]) = {}
       \/ /\ csv_order_items # <<>>
          /\ predicter.past.columns = <<>>

(* C8: after prepare_past(d), the past matrix is the one prepare_past(d)
   builds on a fresh OutflowPredicter of the same csv file, whatever calls
   came before. *)
C8_PastIsRebuiltFromFile ==
    last_call.op = "prepare_past" =>
        predicter.past = prepare_past(OutflowPredicter(csv_order_items), last_call.arg).past

(* C9: after predict_future(days_in_future), the rows of the future matrix
   are the dates of [today, today + days_in_future), its columns are the
   past matrix's in the same order, and every value of a column, times the
   number of past rows, is the total of the same column of the past matrix
   (the mean, as a fraction). *)
C9_FutureIsColumnMean ==
    (last_call.op = "predict_future" /\ raised = NoError) =>
        LET past   == predicter.past
            future == predicter.future
        IN  /\ Len(future.index) = last_call.arg
            /\ \A i \in 1..Len(future.index) : future.index[i] = today + (i - 1)
            /\ future.columns = past.columns
            /\ DOMAIN future.cell = Range(future.index) \X Range(future.columns)
            /\ \A q \in DOMAIN future.cell :
                   future.cell[q].num * Len(past.index)
                       = future.cell[q].den
                           * SumCells(past.cell, {r \in DOMAIN past.cell : r[2] = q[2]})

(* a future matrix of two columns, one with a mean that is not a whole
   number and one of an all-zero history *)
C9_Witness ==
    /\ last_call.op = "predict_future"
    /\ raised = NoError
    /\ Len(predicter.future.columns) = 2
    /\ \E q \in DOMAIN predicter.future.cell : predicter.future.cell[q].den > 1
    /\ \E q \in DOMAIN predicter.future.cell : predicter.future.cell[q].num = 0

(* C11: predict_future with days_in_future <= 0 on a predicter that has a
   past matrix fails with InvalidHorizonError; it never completes normally
   leaving an empty future matrix. *)
C11_EmptyHorizonRaises ==
    (last_call.op = "predict_future" /\ last_call.arg <= 0 /\ HasAttr(predicter, "past")) =>
        raised.type = "InvalidHorizonError"

(* C12: prepare_past with days_back <= 0 raises InvalidRangeError instead
   of producing a past matrix. *)
C12_EmptyRangeRaises ==
    (last_call.op = "prepare_past" /\ last_call.arg <= 0) =>
        raised.type = "InvalidRangeError"

(* the series a call of propose_replenishment_quantities builds on a report:
   when a forecast date >= until_date exists, an entry per column, in column
   order, of minus the level at the first such date; otherwise no entry *)
QuantitiesOfOneCall(self, until_date) ==
    LET dates == DatesFrom(self, until_date)
    IN  IF dates = {} THEN EmptySeries
        ELSE [index |-> self.future.columns,
              value |-> [sku \in Range(self.future.columns) |->
                            RatNeg(LevelAfter(self.future,
                                              InventoryOf(self.inventory_levels, sku),
                                              sku, MinOf(dates)))]]

C10_State ==
    (Constructed /\ last_call.op = "propose_replenishment_quantities") =>
        report.replenischment_quantities = QuantitiesOfOneCall(report, last_call.arg)

C10_Step ==
    (Constructed /\ last_call'.op \in SimulatorOps) =>
        /\ report'.future = report.future
        /\ report'.inventory_levels = report.inventory_levels
        /\ last_call'.op = "propose_replenishment_quantities" =>
               report'.out_of_stock_dates = report.out_of_stock_dates

(* C10: a simulator operation called on a report leaves its future matrix
   and inventory levels as they were, propose_replenishment_quantities
   leaves the out-of-stock dates as they were, and after
   propose_replenishment_quantities(u) the quantities are those of a single
   call with u, whatever calls came before. *)
C10_SimulatorCallsAreFresh == [](C10_State) /\ [][C10_Step]_vars

(* propose_replenishment_quantities has recorded the quantities of two
   products on a report that has out-of-stock dates *)
C10_Witness ==
    /\ Constructed
    /\ last_call.op = "propose_replenishment_quantities"
    /\ Len(report.replenischment_quantities.index) = 2
    /\ report.out_of_stock_dates.index # <<>>

(* every forecast value of the product is 0 *)
ZeroForecast(self, sku) ==
    \A d \in Range(self.future.index) : self.future.cell[<<d, sku>>].num = 0

(* C13: a product whose forecast values are all 0 and whose starting
   inventory is >= 0 (0 included) has no out-of-stock date recorded by
   _predict_out_of_stock_dates. *)
C13_ZeroForecastNeverOutOfStock ==
    Constructed =>
        \A sku \in Range(report.future.columns) :
            (/\ ZeroForecast(report, sku)
             /\ ~RatIsNegative(InventoryOf(report.inventory_levels, sku))) =>
                sku \notin Range(report.out_of_stock_dates.index)

(* a report over two forecast dates with a product of all-zero forecasts
   and starting inventory 0 *)
C13_Witness ==
    /\ Constructed
    /\ Len(report.future.index) >= 2
    /\ \E sku \in Range(report.future.columns) :
           /\ ZeroForecast(report, sku)
           /\ InventoryOf(report.inventory_levels, sku) = RatOfInt(0)
           /\ sku \notin Range(report.out_of_stock_dates.index)

(* C15: when no forecast is negative and until_date is a forecast date, a
   product's replenishment quantity is > 0 exactly when an out-of-stock
   date is recorded for it that is not later than the first forecast date
   >= until_date. *)
C15_PositiveQuantityIffOutOfStockByUntil ==
    (/\ Constructed
     /\ last_call.op = "propose_replenishment_quantities"
     /\ last_call.arg \in Range(report.future.index)
     /\ \A p \in DOMAIN report.future.cell : ~RatIsNegative(report.future.cell[p])) =>
        \A sku \in Range(report.future.columns) :
            LET quantities == report.replenischment_quantities
                dates      == report.out_of_stock_dates
            IN  (/\ sku \in Range(quantities.index)
                 /\ quantities.value[sku].num > 0)
                <=> (/\ sku \in Range(dates.index)
                     /\ dates.value[sku] <= MinOf(DatesFrom(report, last_call.arg)))

(* one product runs out of stock by until_date and gets a quantity > 0,
   another runs out of stock only after until_date and gets none *)
C15_Witness ==
    /\ Constructed
    /\ last_call.op = "propose_replenishment_quantities"
    /\ last_call.arg \in Range(report.future.index)
    /\ \E sku \in Range(report.out_of_stock_dates.index) :
           /\ report.out_of_stock_dates.value[sku] <= last_call.arg
           /\ report.replenischment_quantities.value[sku].num > 0
    /\ \E sku \in Range(report.out_of_stock_dates.index) :
           /\ report.out_of_stock_dates.value[sku] > last_call.arg
           /\ report.replenischment_quantities.value[sku].num <= 0

----------------------------------------------------------------------------
(* AmazonDataLogger: collecting order items *)

MaxOrders == 3
MaxCsvRows == 5

(* The orders of the seller's account; an order's id is its number *)
OrderIds == 1..MaxOrders

(* an order as get_orders lists it *)
OrderOf(order_id) == [AmazonOrderId |-> order_id, PurchaseDate |-> today - order_id]

(* payload["OrderItems"] of get_order_items(order_id): one item per product,
   of the first one or more products *)
OrderItemsPayload(order_id) ==
    [j \in 1..(((order_id - 1) % Len(SkuOrder)) + 1) |->
        [SellerSKU |-> SkuOrder[j], QuantityOrdered |-> 1]]

(* what request_recent_orders_from_spapi(days_back) can return: the orders
   created after today - days_back that the API lists, each once *)
RecentOrderLists(days_back) ==
    {[i \in 1..Len(ids) |-> OrderOf(ids[i])] :
        ids \in {s \in UNION {[1..n -> OrderIds] : n \in 0..MaxOrders} :
                    /\ \A i, j \in 1..Len(s) : s[i] = s[j] => i = j
                    /\ \A i \in 1..Len(s) : today - s[i] >= today - days_back}}

(* AmazonDataLogger.get_recent_orders, given what the API returned *)
get_recent_orders(orders_) ==
    [i \in 1..Len(orders_) |->
        [PurchaseDate |-> orders_[i].PurchaseDate, AmazonOrderId |-> orders_[i].AmazonOrderId]]

(* AmazonDataLogger.get_order_items *)
RECURSIVE logger_get_order_items(_)
logger_get_order_items(orders) ==
    IF orders = <<>> THEN <<>>
    ELSE LET order        == Head(orders)
             order_items_ == OrderItemsPayload(order.AmazonOrderId)
         IN  [j \in 1..Len(order_items_) |->
                 [AmazonOrderId   |-> order.AmazonOrderId,
                  PurchaseDate    |-> order.PurchaseDate,
                  SellerSKU       |-> order_items_[j].SellerSKU,
                  QuantityOrdered |-> order_items_[j].QuantityOrdered]]
             \o logger_get_order_items(Tail(orders))

(* AmazonDataLogger.get_order_items_from_csv: the rows of the file, none
   when there is no file *)
get_order_items_from_csv(csv) == csv

(* AmazonDataLogger.add_order_items_to_csv: the file after the call *)
add_order_items_to_csv(csv, order_items) ==
    IF order_items # <<>> THEN csv \o order_items ELSE csv

(* AmazonDataLogger.__init__ *)
AmazonDataLogger(csv) == [order_items |-> get_order_items_from_csv(csv)]

(* the orders collect_order_items asks the items of *)
OrdersNotInCsv(self, orders) ==
    LET csv_order_ids == {self.order_items[i].AmazonOrderId : i \in 1..Len(self.order_items)}
    IN  SelectSeq(orders, LAMBDA order : order.AmazonOrderId \notin csv_order_ids)

(* AmazonDataLogger.collect_order_items: the file after the call *)
collect_order_items(self, csv, orders_) ==
    LET orders      == OrdersNotInCsv(self, get_recent_orders(orders_))
        order_items == logger_get_order_items(orders)
    IN  add_order_items_to_csv(csv, order_items)

(* The order items files earlier runs of the logger have written *)
LoggedFiles == {logger_get_order_items(orders) : orders \in RecentOrderLists(MaxOrders)}

InitLogger ==
    /\ csv_order_items \in LoggedFiles
    /\ predicter = NoObject
    /\ report = NoObject
    /\ last_call = Call("none", 0)
    /\ raised = NoError
    /\ logger = NoObject
    /\ fetch = NoObject
    /\ spapi = NoObject

NewLogger ==
    /\ DOMAIN logger = {}
    /\ logger' = AmazonDataLogger(csv_order_items)
    /\ last_call' = Call("AmazonDataLogger", 0)
    /\ UNCHANGED <<csv_order_items, predicter, report, raised, fetch, spapi>>

CollectOrderItems(days_back, orders_) ==
    /\ DOMAIN logger # {}
    /\ Len(csv_order_items) < MaxCsvRows
    /\ csv_order_items' = collect_order_items(logger, csv_order_items, orders_)
    /\ last_call' = Call("collect_order_items", days_back)
    /\ UNCHANGED <<predicter, report, raised, logger, fetch, spapi>>

NextLogger ==
    \/ NewLogger
    \/ \E days_back \in DaysBackArgs : \E orders_ \in RecentOrderLists(days_back) :
           CollectOrderItems(days_back, orders_)

SpecLogger == InitLogger /\ [][NextLogger]_vars

(* the rows of the order in the file *)
CsvRowsOf(csv, order_id) == {i \in 1..Len(csv) : csv[i].AmazonOrderId = order_id}

(* C14: after any calls of collect_order_items on one AmazonDataLogger, the
   order items file holds the items of each order at most once: a call
   neither requests nor adds the items of an order the file already holds. *)
C14_CsvHoldsEachOrderOnce ==
    \A order_id \in OrderIds :
        Cardinality(CsvRowsOf(csv_order_items, order_id)) <= Len(OrderItemsPayload(order_id))

----------------------------------------------------------------------------
(* AmazonDataLogger: the request loops *)

MaxPages == 2
MaxPageLen == 1
MaxThrottles == 2

PagedLoops == {"request_recent_orders_from_spapi", "request_inventory_levels_from_spapi"}

Loops == PagedLoops \cup {"request_order_items_from_spapi"}

(* Tokens are pairs, so that any two can be compared: None is the empty
   tuple, next_token = "start" is StartToken, and the token the API hands
   out for a page is NextToken(page) *)
None == <<>>

StartToken == <<"start", 0>>

NextToken(page) == <<"NextToken", page>>

(* The listings the API can hold: one or more pages, record j of page k
   is <<k, j>> *)
PageChains ==
    {[k \in 1..Len(sizes) |-> [j \in 1..sizes[k] |-> <<k, j>>]] :
        sizes \in UNION {[1..n -> 0..MaxPageLen] : n \in 1..MaxPages}}

(* The response of the API to a request of the page: res.payload holds the
   records (payload["Orders"], payload["inventorySummaries"],
   payload["OrderItems"]) and the token of the next page, which
   res.next_token repeats; there is no token on the last page *)
ApiResponse(pages, page) ==
    LET token == IF page < Len(pages) THEN NextToken(page + 1) ELSE None
    IN  [payload |-> [records |-> pages[page], NextToken |-> token],
         next_token |-> token]

(* the locals when the loop is entered *)
NewRequest(loop) ==
    [loop |-> loop, pc |-> "request", next_token |-> StartToken,
     res |-> NoObject, result |-> <<>>]

(* the page the request inside try asks the API for: the first one without
   a token, otherwise the one of the token passed, which is
   res.payload["NextToken"] in request_recent_orders_from_spapi and
   next_token in request_inventory_levels_from_spapi *)
PageRequested(f) ==
    IF f.loop = "request_order_items_from_spapi" \/ f.next_token = StartToken THEN 1
    ELSE IF f.loop = "request_recent_orders_from_spapi" THEN f.res.payload.NextToken[2]
    ELSE f.next_token[2]

(* the try branch when the request is answered with res *)
try_branch(f, res) ==
    IF f.loop = "request_order_items_from_spapi"
    THEN [f EXCEPT !.res = res, !.result = res.payload.records, !.pc = "returned"]
    ELSE [f EXCEPT !.res = res,
                   !.result = @ \o res.payload.records,
                   !.next_token = res.next_token,
                   !.pc = IF res.next_token # None THEN "request" ELSE "returned"]

(* except_branch starting over from the first page *)
except_branch_restarting(f) == [f EXCEPT !.next_token = StartToken]

(* except_branch leaving the loop *)
except_branch_giving_up(f) == [f EXCEPT !.pc = "returned"]

(* the except branch: SellingApiRequestThrottledException is caught, the
   call sleeps and the loop goes round with the locals as they were *)
except_branch(f) == f

ThrottledRequests == SelectSeq(spapi.requests, LAMBDA r : r.throttled)

AnsweredRequests == SelectSeq(spapi.requests, LAMBDA r : ~r.throttled)

InitFetch ==
    /\ csv_order_items = <<>>
    /\ predicter = NoObject
    /\ report = NoObject
    /\ last_call = Call("none", 0)
    /\ raised = NoError
    /\ logger = NoObject
    /\ \E loop \in Loops, pages \in PageChains :
           /\ loop = "request_order_items_from_spapi" => Len(pages) = 1
           /\ fetch = NewRequest(loop)
           /\ spapi = [pages |-> pages, requests |-> <<>>]

(* one round of the loop with the request answered *)
Answered ==
    /\ fetch.pc = "request"
    /\ LET page == PageRequested(fetch)
       IN  /\ fetch' = try_branch(fetch, ApiResponse(spapi.pages, page))
           /\ spapi' = [spapi EXCEPT
                           !.requests = Append(@, [page |-> page, throttled |-> FALSE])]
    /\ UNCHANGED <<csv_order_items, predicter, report, last_call, raised, logger>>

(* one round of the loop with the request throttled *)
Throttled ==
    /\ fetch.pc = "request"
    /\ Len(ThrottledRequests) < MaxThrottles
    /\ fetch' = except_branch(fetch)
    /\ spapi' = [spapi EXCEPT
                    !.requests = Append(@, [page |-> PageRequested(fetch), throttled |-> TRUE])]
    /\ UNCHANGED <<csv_order_items, predicter, report, last_call, raised, logger>>

NextFetch == Answered \/ Throttled

SpecFetch == InitFetch /\ [][NextFetch]_vars

(* the API does not throttle for ever: a request that keeps being made is
   answered at some time *)
SpecFetchFair == SpecFetch /\ WF_vars(Answered)

(* the records of the first n pages, in order *)
RECURSIVE Concat(_, _)
Concat(pages, n) == IF n = 0 THEN <<>> ELSE Concat(pages, n - 1) \o pages[n]

(* C16: in request_recent_orders_from_spapi and
   request_inventory_levels_from_spapi, however throttled and answered
   requests interleave, the answered requests are those of pages 1, 2, ...
   in order, each once, the list built so far is the concatenation of
   their records, a throttled request is followed by a request of the same
   page, and the loop returns only with the records of all pages. *)
C16_ResultIsPagesInOrder ==
    fetch.loop \in PagedLoops =>
        /\ \A i \in 1..Len(AnsweredRequests) : AnsweredRequests[i].page = i
        /\ fetch.result = Concat(spapi.pages, Len(AnsweredRequests))
        /\ \A i \in 1..(Len(spapi.requests) - 1) :
               spapi.requests[i].throttled =>
                   spapi.requests[i + 1].page = spapi.requests[i].page
        /\ fetch.pc = "returned" => Len(AnsweredRequests) = Len(spapi.pages)

(* a paged loop has returned two pages, the second not empty, after a
   throttled request of each page *)
C16_Witness ==
    /\ fetch.loop \in PagedLoops
    /\ fetch.pc = "returned"
    /\ Len(spapi.pages) >= 2
    /\ spapi.pages[2] # <<>>
    /\ \E i, j \in 1..Len(spapi.requests) :
           /\ spapi.requests[i].throttled /\ spapi.requests[i].page = 1
           /\ spapi.requests[j].throttled /\ spapi.requests[j].page = 2

(* a step that leaves the loop is an answered request, and in a paged loop
   the answer has no next token *)
C17_Exit ==
    (fetch.pc = "request" /\ fetch'.pc = "returned") =>
        /\ ~spapi'.requests[Len(spapi'.requests)].throttled
        /\ fetch.loop \in PagedLoops => fetch'.res.next_token = None

(* C17: when the API does not throttle for ever and the pages are finitely
   many, each of the three request loops returns; it leaves the loop only
   on an answered request (one without next token in the two paged loops),
   never on a throttled one. *)
C17_RequestLoopsReturn == <>(fetch.pc = "returned") /\ [][C17_Exit]_vars

(* request_order_items_from_spapi has returned after throttled requests,
   as many as the API throttles at most *)
C17_Witness ==
    /\ fetch.loop = "request_order_items_from_spapi"
    /\ fetch.pc = "returned"
    /\ Len(ThrottledRequests) = MaxThrottles

====
